---- MODULE Spec2Model ----
(***************************************************************************)
(* Model of fido_fetcher (src/src/main.rs): a streaming, bounded-          *)
(* concurrency URL liveness checker.  main -> process_records wires        *)
(* stream_input_records -> map(fetch task) -> buffer_unordered(C) ->       *)
(* mpsc::channel(100) -> writer task.                                      *)
(*                                                                         *)
(* Text is modelled as sequences of one-byte characters.  "TAB" and "SP"   *)
(* are the whitespace bytes, "BAD" is a byte that is not valid UTF-8.      *)
(***************************************************************************)
EXTENDS Integers, Sequences, FiniteSets, TLC

\* ------------------------------------------------------------------ bounds
MaxLines == 3        \* lines in a small input file: 0..MaxLines
MaxConc  == 2        \* configured concurrency: 1..MaxConc

\* -------------------------------------------------------- program constants
QueueCap == 100      \* mpsc::channel::<OutputRecord>(100)

\* ---------------------------------------------------------- pure functions
Range(s) == { s[i] : i \in 1..Len(s) }

\* the sum of s[lo..hi], by halving
RECURSIVE SumRange(_, _, _)
SumRange(s, lo, hi) ==
    IF lo > hi THEN 0
    ELSE IF lo = hi THEN s[lo]
    ELSE LET mid == (lo + hi) \div 2 IN SumRange(s, lo, mid) + SumRange(s, mid + 1, hi)

SumSeq(s) == SumRange(s, 1, Len(s))

\* char::is_whitespace on the model's alphabet
IsWhitespace(c) == c \in {"SP", "TAB"}

\* line_content.trim().is_empty()
TrimIsEmpty(line) == \A i \in 1..Len(line) : IsWhitespace(line[i])

\* Lines::next_line: a line whose bytes are not UTF-8 is an io::Error
ReadOk(line) == "BAD" \notin Range(line)

\* csv reader with delimiter b'\t': the fields of one line
RECURSIVE SplitFields(_, _)
SplitFields(line, cur) ==
    IF line = <<>> THEN <<cur>>
    ELSE IF Head(line) = "TAB" THEN <<cur>> \o SplitFields(Tail(line), <<>>)
    ELSE SplitFields(Tail(line), Append(cur, Head(line)))

\* reader.deserialize::<InputRecord>() without headers: positional, the
\* struct visitor takes url then text and fails on a missing element
Deserialize(line) ==
    LET fields == SplitFields(line, <<>>) IN
    IF Len(fields) < 2
    THEN [ok |-> FALSE, url |-> <<>>, text |-> <<>>]
    ELSE [ok |-> TRUE, url |-> fields[1], text |-> fields[2]]

\* Sha256::finalize for the URLs that occur in the model: the first 10 of
\* the 32 digest bytes
Sha256Head(url) ==
    CASE url = <<"a">> -> <<202, 151, 129, 18, 202, 27, 189, 202, 250, 194>>
      [] url = <<"b">> -> <<62, 35, 232, 22, 0, 57, 89, 74, 51, 137>>
      [] url = <<>>    -> <<227, 176, 196, 66, 152, 252, 28, 20, 154, 251>>

\* hash_bytes[0..8] read by u64::from_be_bytes; the u64 is kept as its eight
\* base-256 digits, most significant first
generate_url_hash(url) == SubSeq(Sha256Head(url), 1, 8)

\* a test that also takes the redirection class for success
is_success_UpTo399(status) == status >= 200 /\ status <= 399

\* StatusCode::is_success: 200..=299
is_success(status) == status >= 200 /\ status <= 299

\* fetch_url on the outcome of client.get(url).send(): Ok(response) or Err
fetch_url(resp) == IF resp.ok THEN is_success(resp.status) ELSE FALSE

\* metadata(path).len() of a file whose lines each end in one "\n"
FileSize(lines) == SumSeq([i \in 1..Len(lines) |-> Len(lines[i]) + 1])

\* --------------------------------------------------------------- inputs
LineSet == { <<>>, <<"SP">>, <<"a", "TAB", "x">>, <<"b", "TAB", "y">>,
             <<"a">>, <<"BAD">> }

RECURSIVE SeqsUpTo(_, _)
SeqsUpTo(S, n) ==
    IF n = 0 THEN { <<>> }
    ELSE LET shorter == SeqsUpTo(S, n - 1) IN
         shorter \cup { Append(s, x) : s \in { t \in shorter : Len(t) = n - 1 }, x \in S }

TransportError == [ok |-> FALSE, status |-> 0]
Responses == { [ok |-> TRUE, status |-> 200], [ok |-> TRUE, status |-> 304],
               [ok |-> TRUE, status |-> 404], TransportError }

SetupFaults == { "none", "missing", "metadata", "client", "create", "open" }

\* a file that fills the queue and the one slot of concurrency 1 and still
\* has a line left: no header, QueueCap + 2 identical valid lines
LongFile == [i \in 1..(QueueCap + 2) |-> <<"a", "TAB", "x">>]

NoRecord == [url |-> <<>>, text |-> <<>>]
NoOutput == [url |-> <<>>, text |-> <<>>, id |-> <<>>, download_successful |-> FALSE]

\* ---------------------------------------------------------------- state
VARIABLES
    args,             \* Args: concurrency, no_header
    input,            \* the input file: its lines, each ended by a newline
    env,              \* the environment: setup fault, possible responses, write faults
    pc,               \* position of main / process_records
    pb,               \* ProgressBar: length, position
    outDisk,          \* the output file on disk: "untouched" or the flushed rows
    outBuf,           \* BufWriter: rows written and not yet flushed
    queue,            \* mpsc channel contents
    txOpen,           \* the tx held by process_records is not dropped
    rxOpen,           \* rx is not dropped
    pos,              \* number of lines consumed from `lines`
    line_number,      \* stream_input_records: line_number
    bytes_processed,  \* stream_input_records: bytes_processed
    streamDone,       \* the stream returned None
    offsets,          \* the byte offsets paired with the records yielded so far
    inflight,         \* buffer_unordered: futures in progress, in dispatch order
    wpc,              \* position of the writer task
    successful_count, \* writer task
    total_count,      \* writer task
    received,         \* records the writer task dequeued, in order
    log,              \* error!/warn! events
    summary           \* counts reported by process_records

vars == << args, input, env, pc, pb, outDisk, outBuf, queue, txOpen, rxOpen,
           pos, line_number, bytes_processed, streamDone, offsets, inflight, wpc,
           successful_count, total_count, received, log, summary >>

envVars    == << args, input, env >>
streamVars == << pos, line_number, bytes_processed, streamDone, offsets >>
writerVars == << wpc, successful_count, total_count, received, outBuf >>

SmallScenario ==
    /\ input \in [lines : SeqsUpTo(LineSet, MaxLines)]
    /\ args \in [concurrency : 1..MaxConc, no_header : BOOLEAN]
    /\ env \in [fault : SetupFaults, responses : {Responses}, writeMayFail : {TRUE}]

LongScenario ==
    /\ input = [lines |-> LongFile]
    /\ args = [concurrency |-> 1, no_header |-> TRUE]
    /\ env = [fault |-> "none", responses |-> {[ok |-> TRUE, status |-> 200]},
              writeMayFail |-> FALSE]

Init ==
    /\ SmallScenario \/ LongScenario
    /\ pc = "main"
    /\ pb = [length |-> 0, position |-> 0]
    /\ outDisk = "untouched"
    /\ outBuf = <<>>
    /\ queue = <<>>
    /\ txOpen = FALSE
    /\ rxOpen = FALSE
    /\ pos = 0
    /\ line_number = 0
    /\ bytes_processed = 0
    /\ streamDone = FALSE
    /\ offsets = <<>>
    /\ inflight = <<>>
    /\ wpc = "unspawned"
    /\ successful_count = 0
    /\ total_count = 0
    /\ received = <<>>
    /\ log = <<>>
    /\ summary = [total |-> 0, successful |-> 0, failed |-> 0]

\* ---------------------------------------------------------------- setup
Fail(ev) ==
    /\ pc' = "failed"
    /\ log' = Append(log, [ev |-> ev, line |-> 0, at |-> 0])

\* a main that goes on without the existence test
MainCheckInput_NoCheck ==
    /\ pc = "main"
    /\ pc' = "file_size"
    /\ UNCHANGED << envVars, pb, outDisk, queue, txOpen, rxOpen, streamVars,
                    inflight, writerVars, log, summary >>

\* main: if !args.input.exists() { bail!(...) }
MainCheckInput ==
    /\ pc = "main"
    /\ IF env.fault = "missing"
       THEN Fail("input_missing")
       ELSE pc' = "file_size" /\ UNCHANGED log
    /\ UNCHANGED << envVars, pb, outDisk, queue, txOpen, rxOpen, streamVars,
                    inflight, writerVars, summary >>

\* process_records: get_file_size, ProgressBar::new(total_file_size)
GetFileSize ==
    /\ pc = "file_size"
    /\ IF env.fault = "metadata"
       THEN Fail("file_size_failed") /\ UNCHANGED pb
       ELSE /\ pc' = "client"
            /\ pb' = [length |-> FileSize(input.lines), position |-> 0]
            /\ UNCHANGED log
    /\ UNCHANGED << envVars, outDisk, queue, txOpen, rxOpen, streamVars,
                    inflight, writerVars, summary >>

\* process_records: Client::builder()...build()
BuildClient ==
    /\ pc = "client"
    /\ IF env.fault = "client"
       THEN Fail("client_failed")
       ELSE pc' = "output" /\ UNCHANGED log
    /\ UNCHANGED << envVars, pb, outDisk, queue, txOpen, rxOpen, streamVars,
                    inflight, writerVars, summary >>

CsvHeader == <<"url", "text", "id", "download_successful">>

\* process_records: File::create, BufWriter, header row, mpsc::channel,
\* tokio::spawn of the writer task
CreateOutput ==
    /\ pc = "output"
    /\ IF env.fault = "create"
       THEN /\ Fail("create_failed")
            /\ UNCHANGED << outDisk, outBuf, txOpen, rxOpen, wpc >>
       ELSE /\ pc' = "open_input"
            /\ outDisk' = <<>>
            /\ outBuf' = <<CsvHeader>>
            /\ txOpen' = TRUE
            /\ rxOpen' = TRUE
            /\ wpc' = "recv"
            /\ UNCHANGED log
    /\ UNCHANGED << envVars, pb, queue, streamVars, inflight,
                    successful_count, total_count, received, summary >>

\* stream_input_records up to the construction of the stream: File::open,
\* the optional header line, the initial bytes_processed; on Err the `?` in
\* process_records returns and drops tx
OpenStream ==
    /\ pc = "open_input"
    /\ LET noHeaderLine == ~args.no_header /\ input.lines = <<>>
           badHeader == ~args.no_header /\ input.lines # <<>> /\ ~ReadOk(input.lines[1])
       IN
       IF env.fault = "open" \/ noHeaderLine \/ badHeader
       THEN /\ Fail(IF env.fault = "open" THEN "open_failed"
                    ELSE IF noHeaderLine THEN "empty_input" ELSE "header_read_failed")
            /\ txOpen' = FALSE
            /\ UNCHANGED streamVars
       ELSE /\ pc' = "streaming"
            /\ pos' = IF args.no_header THEN 0 ELSE 1
            /\ bytes_processed' = (IF args.no_header THEN 0 ELSE Len(input.lines[1])) + 1
            /\ line_number' = 1
            /\ UNCHANGED << streamDone, offsets, txOpen, log >>
    /\ UNCHANGED << envVars, pb, outDisk, queue, rxOpen, inflight, writerVars, summary >>

\* ------------------------------------------------------------ streaming
RemoveAt(s, i) == SubSeq(s, 1, i - 1) \o SubSeq(s, i + 1, Len(s))

OkTask(record, offset) ==
    [kind |-> "ok", phase |-> "new", record |-> record, bytes_processed |-> offset,
     line |-> 0, url_hash |-> <<>>, resp |-> TransportError, output_record |-> NoOutput]

\* an Err item whose future starts as a fetch in progress
ErrTask_Fetching(n) ==
    [kind |-> "err", phase |-> "fetching", record |-> NoRecord, bytes_processed |-> 0,
     line |-> n, url_hash |-> <<>>, resp |-> TransportError, output_record |-> NoOutput]

\* Err(e) of the stream mapped to its future: error!("Error processing record")
ErrTask(n) ==
    [kind |-> "err", phase |-> "new", record |-> NoRecord, bytes_processed |-> 0,
     line |-> n, url_hash |-> <<>>, resp |-> TransportError, output_record |-> NoOutput]

\* buffer_unordered polls the stream only while
\* in_progress_queue.len() < max
SlotFree_OffByOne == Len(inflight) <= args.concurrency

SlotFree == Len(inflight) < args.concurrency

\* bytes_processed after one line: a line that was read adds its length and
\* one newline byte, before the empty-line test; a read error adds nothing
NextOffset_SkipBlank(bp, line) ==
    IF ReadOk(line) /\ ~TrimIsEmpty(line) THEN bp + Len(line) + 1 ELSE bp

NextOffset(bp, line) == IF ReadOk(line) THEN bp + Len(line) + 1 ELSE bp

\* what the stream yields for one line, as the future the item is mapped to:
\* nothing for an empty line, Ok((record, bytes_processed)) or Err(line n);
\* the csv reader has a record for every line that is not empty after trim
StreamYield_Silent(line, n, offset) ==
    IF ~ReadOk(line) THEN << ErrTask(n) >>
    ELSE IF TrimIsEmpty(line) \/ ~Deserialize(line).ok THEN << >>
    ELSE << OkTask([url |-> Deserialize(line).url, text |-> Deserialize(line).text], offset) >>

StreamYield(line, n, offset) ==
    IF ~ReadOk(line) THEN << ErrTask(n) >>
    ELSE IF TrimIsEmpty(line) THEN << >>
    ELSE IF Deserialize(line).ok
    THEN << OkTask([url |-> Deserialize(line).url, text |-> Deserialize(line).text], offset) >>
    ELSE << ErrTask(n) >>

\* the error! event of the stream for one line; `at` records the position
\* of the line in the file (1-based), which the program does not know
StreamLog(line, n, at) ==
    IF ~ReadOk(line) THEN << [ev |-> "read_line_failed", line |-> n, at |-> at] >>
    ELSE IF ~TrimIsEmpty(line) /\ ~Deserialize(line).ok
    THEN << [ev |-> "parse_failed", line |-> n, at |-> at] >>
    ELSE << >>

\* one iteration of the while-let loop of the stream; a yielded item is
\* mapped to a future and pushed to the futures in progress
StreamNextLine ==
    /\ pc = "streaming"
    /\ ~streamDone
    /\ SlotFree
    /\ pos < Len(input.lines)
    /\ LET line == input.lines[pos + 1]
           n == line_number + 1
           offset == NextOffset(bytes_processed, line)
           item == StreamYield(line, n, offset)
       IN
       /\ pos' = pos + 1
       /\ line_number' = n
       /\ bytes_processed' = offset
       /\ inflight' = inflight \o item
       /\ offsets' = IF item # <<>> /\ item[1].kind = "ok"
                     THEN Append(offsets, offset) ELSE offsets
       /\ log' = log \o StreamLog(line, n, pos + 1)
    /\ UNCHANGED << envVars, pc, pb, outDisk, queue, txOpen, rxOpen, streamDone,
                    writerVars, summary >>

\* lines.next_line() returns None: the stream ends
StreamEnd ==
    /\ pc = "streaming"
    /\ ~streamDone
    /\ SlotFree
    /\ pos = Len(input.lines)
    /\ streamDone' = TRUE
    /\ UNCHANGED << envVars, pc, pb, outDisk, queue, txOpen, rxOpen, pos,
                    line_number, bytes_processed, offsets, inflight, writerVars, log,
                    summary >>

\* an Err item that ends the run instead of being logged
TaskStart_Abort(i) ==
    /\ pc = "streaming"
    /\ i \in 1..Len(inflight)
    /\ inflight[i].phase = "new"
    /\ \A j \in 1..(i - 1) : inflight[j].phase # "new"
    /\ IF inflight[i].kind = "ok"
       THEN /\ pb' = [pb EXCEPT !.position = inflight[i].bytes_processed]
            /\ inflight' = [inflight EXCEPT ![i].phase = "fetching",
                               ![i].url_hash = generate_url_hash(inflight[i].record.url)]
            /\ UNCHANGED << pc, log >>
       ELSE /\ log' = Append(log, [ev |-> "error_processing_record",
                                   line |-> inflight[i].line, at |-> 0])
            /\ inflight' = RemoveAt(inflight, i)
            /\ pc' = "failed"
            /\ UNCHANGED pb
    /\ UNCHANGED << envVars, outDisk, queue, txOpen, rxOpen, streamVars,
                    writerVars, summary >>

\* first poll of a mapped future (FuturesUnordered polls new futures in push
\* order): Ok sets the progress position, hashes the url and starts the
\* request; Err logs and completes
TaskStart(i) ==
    /\ pc = "streaming"
    /\ i \in 1..Len(inflight)
    /\ inflight[i].phase = "new"
    /\ \A j \in 1..(i - 1) : inflight[j].phase # "new"
    /\ IF inflight[i].kind = "ok"
       THEN /\ pb' = [pb EXCEPT !.position = inflight[i].bytes_processed]
            /\ inflight' = [inflight EXCEPT ![i].phase = "fetching",
                               ![i].url_hash = generate_url_hash(inflight[i].record.url)]
            /\ UNCHANGED log
       ELSE /\ log' = Append(log, [ev |-> "error_processing_record", line |-> inflight[i].line, at |-> 0])
            /\ inflight' = RemoveAt(inflight, i)
            /\ UNCHANGED pb
    /\ UNCHANGED << envVars, pc, outDisk, queue, txOpen, rxOpen, streamVars,
                    writerVars, summary >>

\* an OutputRecord assembled from the record of the oldest future in
\* progress instead of the task's own record
FetchReturn_Swapped(i) ==
    /\ pc = "streaming"
    /\ i \in 1..Len(inflight)
    /\ inflight[i].phase = "fetching"
    /\ \E resp \in env.responses :
          inflight' = [inflight EXCEPT
              ![i].phase = "sending",
              ![i].resp = resp,
              ![i].output_record =
                  [url |-> inflight[1].record.url,
                   text |-> inflight[1].record.text,
                   id |-> inflight[1].url_hash,
                   download_successful |-> fetch_url(resp)]]
    /\ UNCHANGED << envVars, pc, pb, outDisk, queue, txOpen, rxOpen, streamVars,
                    writerVars, log, summary >>

\* fetch_url returns; the OutputRecord is assembled
FetchReturn(i) ==
    /\ pc = "streaming"
    /\ i \in 1..Len(inflight)
    /\ inflight[i].phase = "fetching"
    /\ \E resp \in env.responses :
          inflight' = [inflight EXCEPT
              ![i].phase = "sending",
              ![i].resp = resp,
              ![i].output_record =
                  [url |-> inflight[i].record.url,
                   text |-> inflight[i].record.text,
                   id |-> inflight[i].url_hash,
                   download_successful |-> fetch_url(resp)]]
    /\ UNCHANGED << envVars, pc, pb, outDisk, queue, txOpen, rxOpen, streamVars,
                    writerVars, log, summary >>

\* a send that does not wait: the record is dropped when the queue is full
TaskSend_TrySend(i) ==
    /\ pc = "streaming"
    /\ i \in 1..Len(inflight)
    /\ inflight[i].phase = "sending"
    /\ queue' = IF rxOpen /\ Len(queue) < QueueCap
                THEN Append(queue, inflight[i].output_record) ELSE queue
    /\ inflight' = RemoveAt(inflight, i)
    /\ UNCHANGED << envVars, pc, pb, outDisk, txOpen, rxOpen, streamVars,
                    writerVars, log, summary >>

\* a channel without a capacity
QueueHasRoom_Unbounded == TRUE

\* the channel has a free permit: fewer than 100 records are queued
QueueHasRoom == Len(queue) < QueueCap

\* a record placed at the head of the channel
Enqueue_Front(q, r) == <<r>> \o q

\* the channel is first in, first out
Enqueue(q, r) == Append(q, r)

\* tx.send(output_record).await: Err when rx is dropped, waits while the
\* queue is full
TaskSend(i) ==
    /\ pc = "streaming"
    /\ i \in 1..Len(inflight)
    /\ inflight[i].phase = "sending"
    /\ IF ~rxOpen
       THEN /\ log' = Append(log, [ev |-> "send_failed", line |-> 0, at |-> 0])
            /\ UNCHANGED queue
       ELSE /\ QueueHasRoom
            /\ queue' = Enqueue(queue, inflight[i].output_record)
            /\ UNCHANGED log
    /\ inflight' = RemoveAt(inflight, i)
    /\ UNCHANGED << envVars, pc, pb, outDisk, txOpen, rxOpen, streamVars,
                    writerVars, summary >>

\* collect returns and tx is kept alive across writer_handle.await
CollectDone_NoDrop ==
    /\ pc = "streaming"
    /\ streamDone
    /\ inflight = <<>>
    /\ pc' = "join"
    /\ UNCHANGED << envVars, pb, outDisk, queue, txOpen, rxOpen, streamVars, inflight,
                    writerVars, log, summary >>

\* buffer_unordered is exhausted, collect returns, drop(tx)
CollectDone ==
    /\ pc = "streaming"
    /\ streamDone
    /\ inflight = <<>>
    /\ txOpen' = FALSE
    /\ pc' = "join"
    /\ UNCHANGED << envVars, pb, outDisk, queue, rxOpen, streamVars, inflight,
                    writerVars, log, summary >>

\* --------------------------------------------------------------- writer
\* a receiver that reports None although a Sender is alive
ChannelClosed_Early == TRUE

\* every Sender (tx and the clone held by each future in progress) is dropped
ChannelClosed == ~txOpen /\ inflight = <<>>

\* csv_writer.serialize(&record) and into_inner: one row
CsvRow(r) == << r.url, r.text, r.id, r.download_successful >>

\* a per-record csv writer that has_headers: the header before every row
SerializeRows_Headers(record) == << CsvHeader, CsvRow(record) >>

\* csv_data of one record: WriterBuilder has_headers(false), one row
SerializeRows(record) == << CsvRow(record) >>

\* a counter that takes every record for a success
CountSuccessful_Always(n, record) == n + 1

\* if record.download_successful { successful_count += 1 }
CountSuccessful(n, record) == n + (IF record.download_successful THEN 1 ELSE 0)

\* a failed write that is skipped without an event
WriteFailLog_None == << >>

\* error!("Failed to serialize record") / error!("Failed to write record")
WriteFailLog == << [ev |-> "write_failed", line |-> 0, at |-> 0] >>

\* one iteration of `while let Some(record) = rx.recv().await`; the struct
\* always serializes into the Vec, the write to the BufWriter may fail
WriterRecv ==
    /\ wpc = "recv"
    /\ queue # <<>>
    /\ LET record == Head(queue) IN
       /\ queue' = Tail(queue)
       /\ received' = Append(received, record)
       /\ total_count' = total_count + 1
       /\ successful_count' = CountSuccessful(successful_count, record)
       /\ \E writeOk \in (IF env.writeMayFail THEN BOOLEAN ELSE {TRUE}) :
             IF writeOk
             THEN outBuf' = outBuf \o SerializeRows(record) /\ UNCHANGED log
             ELSE log' = log \o WriteFailLog /\ UNCHANGED outBuf
    /\ UNCHANGED << envVars, pc, pb, outDisk, txOpen, rxOpen, streamVars, inflight,
                    wpc, summary >>

\* rx.recv() returns None; flush; the task returns (successful, total)
WriterFinish ==
    /\ wpc = "recv"
    /\ queue = <<>>
    /\ ChannelClosed
    /\ wpc' = "done"
    /\ rxOpen' = FALSE
    /\ \E flushOk \in (IF env.writeMayFail THEN BOOLEAN ELSE {TRUE}) :
          IF flushOk
          THEN outDisk' = outDisk \o outBuf /\ outBuf' = <<>> /\ UNCHANGED log
          ELSE log' = Append(log, [ev |-> "flush_failed", line |-> 0, at |-> 0])
               /\ UNCHANGED << outDisk, outBuf >>
    /\ UNCHANGED << envVars, pc, pb, queue, txOpen, streamVars, inflight,
                    successful_count, total_count, received, summary >>

\* writer_handle.await, pb.finish_with_message, the summary, Ok(())
JoinWriter ==
    /\ pc = "join"
    /\ wpc = "done"
    /\ pc' = "done"
    /\ pb' = [pb EXCEPT !.position = pb.length]
    /\ summary' = [total |-> total_count, successful |-> successful_count,
                   failed |-> total_count - successful_count]
    /\ UNCHANGED << envVars, outDisk, queue, txOpen, rxOpen, streamVars, inflight,
                    writerVars, log >>

\* main returned Err while the spawned writer task is still waiting: the
\* runtime is dropped and the task with its BufWriter is dropped unflushed
RuntimeShutdown ==
    /\ pc = "failed"
    /\ wpc = "recv"
    /\ wpc' = "cancelled"
    /\ rxOpen' = FALSE
    /\ outBuf' = <<>>
    /\ UNCHANGED << envVars, pc, pb, outDisk, queue, txOpen, streamVars, inflight,
                    successful_count, total_count, received, log, summary >>

\* the task that runs main, process_records and every future that
\* buffer_unordered polls
Orchestrator ==
    \/ MainCheckInput
    \/ GetFileSize
    \/ BuildClient
    \/ CreateOutput
    \/ OpenStream
    \/ StreamNextLine
    \/ StreamEnd
    \/ \E i \in 1..MaxConc : TaskStart(i)
    \/ \E i \in 1..MaxConc : FetchReturn(i)
    \/ \E i \in 1..MaxConc : TaskSend(i)
    \/ CollectDone
    \/ JoinWriter

\* the spawned writer task
Writer ==
    \/ WriterRecv
    \/ WriterFinish

Next ==
    \/ Orchestrator
    \/ Writer
    \/ RuntimeShutdown

Spec == Init /\ [][Next]_vars

\* the runtime keeps polling both tasks; file reads complete and every
\* request returns within the client timeout
LiveSpec == Init /\ [][Next]_vars /\ WF_vars(Orchestrator) /\ WF_vars(Writer)

\* ------------------------------------------------------------ properties
\* the data lines of the input: every line, or every line after the header
DataLines == SubSeq(input.lines, IF args.no_header THEN 1 ELSE 2, Len(input.lines))

\* a structurally valid, non-empty line
IsValidLine(line) == ReadOk(line) /\ ~TrimIsEmpty(line) /\ Deserialize(line).ok

\* a line that is read and not empty and fails to parse, or is not read
IsErrorLine(line) == ~ReadOk(line) \/ (~TrimIsEmpty(line) /\ ~Deserialize(line).ok)

\* the InputRecords of the valid data lines, in file order
ValidRecords ==
    LET v == SelectSeq(DataLines, IsValidLine) IN
    [i \in 1..Len(v) |-> [url |-> Deserialize(v[i]).url, text |-> Deserialize(v[i]).text]]

LogCount(ev) == Cardinality({ i \in 1..Len(log) : log[i].ev = ev })

InputOf(r) == [url |-> r.url, text |-> r.text]

\* C1: at every moment the number of fetch tasks whose record was pulled
\* from the stream and that have not completed is at most the configured
\* concurrency
C1_AtMostC ==
    Cardinality({ i \in 1..Len(inflight) : inflight[i].kind = "ok" }) <= args.concurrency

\* C1 witness: both slots of concurrency 2 hold a running fetch while a
\* further line waits in the file
C1_Witness ==
    /\ args.concurrency = 2
    /\ Len(inflight) = 2
    /\ \A i \in 1..Len(inflight) : inflight[i].kind = "ok" /\ inflight[i].phase = "fetching"
    /\ pos < Len(input.lines)

\* C2: no yielded record is received by the writer more often than the
\* input holds it, and at Done the writer's total is the number of valid
\* data lines minus the logged enqueue failures
C2_ExactlyOnce ==
    LET valid == ValidRecords
        got == [i \in 1..Len(received) |-> InputOf(received[i])]
    IN
    /\ \A r \in Range(got) :
          Cardinality({ i \in 1..Len(got) : got[i] = r })
            <= Cardinality({ i \in 1..Len(valid) : valid[i] = r })
    /\ pc = "done" =>
          /\ summary.total = Len(valid) - LogCount("send_failed")
          /\ Len(received) = summary.total
          /\ queue = <<>> /\ inflight = <<>>

\* C2 witness: a run with concurrency 2 is Done, the writer received two
\* records and the input had a third data line that is not a record
C2_Witness ==
    /\ pc = "done"
    /\ args.concurrency = 2
    /\ summary.total = 2
    /\ Len(DataLines) = 3

\* C3: under fair scheduling a run that enters Streaming reaches Done, with
\* the stream exhausted, no future in progress, the queue closed and drained
\* and the writer returned; in particular no state before Done is stuck
C3_ReachesDone ==
    (pc = "streaming") ~>
        (pc = "done" /\ streamDone /\ inflight = <<>> /\ ~txOpen /\ queue = <<>>
           /\ wpc = "done")

\* C3 witness: the queue holds 100 records and every concurrency slot is
\* held by a task waiting to enqueue, with lines left to read
C3_Witness ==
    /\ Len(queue) = QueueCap
    /\ Len(inflight) = args.concurrency
    /\ \A i \in 1..Len(inflight) : inflight[i].phase = "sending"
    /\ pos < Len(input.lines)

\* what makes setup fail: a fault of the environment, or a header that is
\* expected and is missing or unreadable
SetupFailureCause ==
    \/ env.fault # "none"
    \/ ~args.no_header /\ (input.lines = <<>> \/ ~ReadOk(input.lines[1]))

\* C4 as stated: a run fails only if the input is missing or cannot be
\* opened or the output cannot be created
C4_Original ==
    pc = "failed" => env.fault \in {"missing", "metadata", "open", "create"}

\* C4: a run fails only for a setup fault (input missing, unreadable
\* metadata, client, output, open) or for a missing or unreadable header
\* line; a run without such a cause never fails, and Done reports a summary
C4_FailsOnlyAtSetup ==
    /\ pc = "failed" => SetupFailureCause
    /\ pc \in {"streaming", "join", "done"} => ~SetupFailureCause
    /\ pc = "done" =>
          /\ summary.total = total_count
          /\ summary.successful + summary.failed = summary.total

\* C4 witness: a run with a malformed line and a failed URL is Done
C4_Witness ==
    /\ pc = "done"
    /\ LogCount("parse_failed") >= 1
    /\ summary.failed >= 1
    /\ summary.successful >= 1

Sending == { i \in 1..Len(inflight) : inflight[i].phase = "sending" }

\* C5 as stated: the result is true iff a response arrived with a status
\* in 2xx-3xx
C5_Original ==
    \A i \in Sending :
        inflight[i].output_record.download_successful
          = (inflight[i].resp.ok /\ inflight[i].resp.status \in 200..399)

\* C5: the result of a fetch is true iff a response arrived with a status
\* in 200..299, false for every other status and for a transport failure;
\* it is the download_successful of the task's OutputRecord, and a run that
\* has dispatched a record never fails
C5_TrueIff2xx ==
    /\ \A i \in Sending :
          inflight[i].output_record.download_successful
            = (inflight[i].resp.ok /\ inflight[i].resp.status \in 200..299)
    /\ (offsets # <<>>) => pc # "failed"

\* C5 witness: one task holds a true result of a 200, another a false result
\* of a transport failure
C5_Witness ==
    \E i, j \in Sending :
        /\ inflight[i].resp = [ok |-> TRUE, status |-> 200]
        /\ inflight[i].output_record.download_successful
        /\ inflight[j].resp = TransportError
        /\ ~inflight[j].output_record.download_successful

\* the rows of the output, buffered or flushed, the header row first
OutputRows == (IF outDisk = "untouched" THEN <<>> ELSE outDisk) \o outBuf

\* every OutputRecord that exists: assembled, queued or received
AllOutputs ==
    { inflight[i].output_record : i \in Sending } \cup Range(queue) \cup Range(received)

\* C6: an assembled OutputRecord has the url and text of its task's record,
\* the hash of that url and the result of that task's fetch; every
\* OutputRecord comes from a valid line, its id is the hash of its url, and
\* so is the id of every output row
C6_RecordIntegrity ==
    LET valid == Range(ValidRecords)
        rows == OutputRows
    IN
    /\ \A i \in Sending :
          /\ inflight[i].output_record.url = inflight[i].record.url
          /\ inflight[i].output_record.text = inflight[i].record.text
          /\ inflight[i].output_record.id = generate_url_hash(inflight[i].record.url)
          /\ inflight[i].output_record.download_successful = fetch_url(inflight[i].resp)
    /\ \A r \in AllOutputs : InputOf(r) \in valid /\ r.id = generate_url_hash(r.url)
    /\ \A r1, r2 \in AllOutputs : r1.url = r2.url => r1.id = r2.id
    /\ \A k \in 2..Len(rows) : rows[k][3] = generate_url_hash(rows[k][1])

\* C6 witness: two tasks of different urls hold different fetch results,
\* the later record having finished with success
C6_Witness ==
    /\ Len(inflight) = 2
    /\ Sending = {1, 2}
    /\ inflight[1].record.url # inflight[2].record.url
    /\ ~inflight[1].output_record.download_successful
    /\ inflight[2].output_record.download_successful

\* C7 as stated: when the stream has consumed the whole file, the byte
\* offset is the size of the file, which is the length of the progress bar
C7_OffsetIsFileSize ==
    streamDone => bytes_processed = FileSize(input.lines) /\ pb.length = FileSize(input.lines)

\* C8: a line that fails to parse does not end the stream and is never
\* fetched or received; at Done every error line was logged by the
\* orchestrator, every valid line was received, and the rows are the
\* received records less the logged write failures
C8_MalformedSkipped ==
    LET valid == ValidRecords IN
    /\ \A i \in 1..Len(inflight) :
          inflight[i].kind = "ok" => inflight[i].record \in Range(valid)
    /\ \A i \in 1..Len(received) : InputOf(received[i]) \in Range(valid)
    /\ streamDone => pos = Len(input.lines)
    /\ pc = "done" =>
          /\ LogCount("error_processing_record") = Len(SelectSeq(DataLines, IsErrorLine))
          /\ Len(received) = Len(valid)
          /\ Len(OutputRows) - 1 = Len(valid) - LogCount("write_failed")

\* C8 witness: a malformed line between two valid lines, the run is Done
\* and the output holds the header and two rows
C8_Witness ==
    /\ pc = "done"
    /\ args.no_header
    /\ input.lines = << <<"a", "TAB", "x">>, <<"a">>, <<"b", "TAB", "y">> >>
    /\ outDisk # "untouched"
    /\ Len(outDisk) = 3

\* C9 as stated: the failure the stream reports for a line carries the
\* 1-based number of that line in the file
C9_LineNumberTag ==
    \A i \in 1..Len(log) :
        log[i].ev \in {"parse_failed", "read_line_failed"} => log[i].line = log[i].at

\* C10: reading an empty or whitespace-only line yields nothing, logs no
\* error and adds its length plus one to the byte offset; a yielded record
\* is paired with the offset reached, and the offsets of successive
\* records increase strictly
C10_BlankLine ==
    /\ [][ (pc = "streaming" /\ pos' = pos + 1) =>
             /\ (ReadOk(input.lines[pos + 1]) /\ TrimIsEmpty(input.lines[pos + 1])) =>
                   /\ inflight' = inflight
                   /\ offsets' = offsets
                   /\ queue' = queue
                   /\ log' = log
                   /\ bytes_processed' = bytes_processed + Len(input.lines[pos + 1]) + 1
             /\ (offsets' # offsets) =>
                   /\ offsets' = Append(offsets, bytes_processed')
                   /\ inflight'[Len(inflight')].bytes_processed = bytes_processed'
         ]_vars
    /\ [](\A k \in 1..(Len(offsets) - 1) : offsets[k] < offsets[k + 1])

\* C10 witness: a blank line between two records was consumed and the two
\* offsets differ by the sizes of the blank line and of the second record
C10_Witness ==
    /\ pos = 3
    /\ args.no_header
    /\ TrimIsEmpty(input.lines[2])
    /\ Len(offsets) = 2
    /\ offsets[2] - offsets[1] = Len(input.lines[2]) + 1 + Len(input.lines[3]) + 1

\* C11: the output starts with the header row, which is written before the
\* writer task is spawned; after that the output changes only by the writer
\* task appending the one row of the record it dequeues from the head of
\* the queue (or by the unflushed buffer being dropped with a failed run),
\* so the data rows are in dequeue order
C11_SingleWriter ==
    /\ [](OutputRows # <<>> => OutputRows[1] = CsvHeader)
    /\ [][ OutputRows' # OutputRows =>
             \/ /\ wpc = "unspawned"
                /\ OutputRows = <<>>
                /\ OutputRows' = <<CsvHeader>>
             \/ /\ wpc = "recv"
                /\ pc' = pc
                /\ inflight' = inflight
                /\ queue # <<>>
                /\ queue' = Tail(queue)
                /\ received' = Append(received, Head(queue))
                /\ Len(OutputRows') = Len(OutputRows) + 1
                /\ SubSeq(OutputRows', 1, Len(OutputRows)) = OutputRows
                /\ OutputRows'[Len(OutputRows')] = CsvRow(Head(queue))
             \/ /\ pc = "failed"
                /\ wpc' = "cancelled"
                /\ OutputRows' = <<>>
         ]_vars
    /\ [][ received' # received =>
             queue # <<>> /\ received' = Append(received, Head(queue)) /\ queue' = Tail(queue)
         ]_vars

\* C11 witness: with concurrency 2 the second record was enqueued first and
\* the flushed output holds the header, its row and then the first record's
C11_Witness ==
    /\ pc = "done"
    /\ args.no_header
    /\ input.lines = << <<"a", "TAB", "x">>, <<"b", "TAB", "y">> >>
    /\ outDisk # "untouched"
    /\ Len(outDisk) = 3
    /\ outDisk[1] = CsvHeader
    /\ outDisk[2][1] = <<"b">>
    /\ outDisk[3][1] = <<"a">>

\* the run is over: process_records returned Ok, or it returned an error
\* and the writer task, if it was spawned, has returned or was cancelled
RunEnded ==
    \/ pc = "done"
    \/ pc = "failed" /\ wpc \in {"unspawned", "done", "cancelled"}

\* C12: in every run that created the output file and whose flush reported
\* no error, when the run is over the buffer is empty and the file starts
\* with the header, whether process_records returned Ok or an error
C12_FlushedAtEnd ==
    (RunEnded /\ outDisk # "untouched" /\ LogCount("flush_failed") = 0) =>
        /\ outBuf = <<>>
        /\ outDisk # <<>>
        /\ outDisk[1] = CsvHeader

\* no record was pulled from the stream, fetched, enqueued, dequeued or
\* written as a row, and no line was reported
NothingProcessed ==
    /\ offsets = <<>>
    /\ inflight = <<>>
    /\ queue = <<>>
    /\ received = <<>>
    /\ Len(OutputRows) <= 1
    /\ LogCount("parse_failed") = 0
    /\ LogCount("error_processing_record") = 0

\* C13: when the input is missing, cannot be opened or read at setup, or
\* the output cannot be created, the run never enters Streaming and no
\* record is dispatched, fetched, enqueued or written; a failed run has
\* processed nothing; and a missing input leaves the output file untouched
\* and the writer task unspawned
C13_SetupAbort ==
    /\ (env.fault \in {"missing", "metadata", "open", "create"}
          \/ (~args.no_header /\ input.lines # <<>> /\ ~ReadOk(input.lines[1]))) =>
          /\ pc \notin {"streaming", "join", "done"}
          /\ NothingProcessed
    /\ pc = "failed" => NothingProcessed
    /\ env.fault \in {"missing", "create"} =>
          /\ outDisk = "untouched"
          /\ outBuf = <<>>
          /\ wpc = "unspawned"

\* C13 witness: the input holds two valid records and cannot be opened; the
\* run failed after the output was created, and the output holds the header
\* alone
C13_Witness ==
    /\ pc = "failed"
    /\ env.fault = "open"
    /\ Len(ValidRecords) >= 2
    /\ wpc = "done"
    /\ outDisk = <<CsvHeader>>

\* C14: tx is dropped only after the stream is exhausted and no future is
\* in progress; the writer task returns only with every Sender dropped and
\* the queue empty; while a future is in progress or the stream can still
\* yield the receiver is alive, and no enqueue attempt has failed
C14_CloseAfterDrain ==
    /\ (pc \in {"streaming", "join", "done"} /\ ~txOpen) =>
          streamDone /\ inflight = <<>>
    /\ (pc \in {"streaming", "join", "done"} /\ wpc = "done") =>
          ~txOpen /\ streamDone /\ inflight = <<>> /\ queue = <<>>
    /\ (pc = "streaming" /\ (~streamDone \/ inflight # <<>>)) => rxOpen /\ wpc = "recv"
    /\ LogCount("send_failed") = 0

\* C14 witness: with concurrency 2 two records were enqueued and dequeued,
\* the queue was closed after collect returned, and the writer task has
\* returned while the orchestrator still waits for it
C14_Witness ==
    /\ args.concurrency = 2
    /\ pc = "join"
    /\ wpc = "done"
    /\ ~txOpen
    /\ Len(received) = 2
    /\ LogCount("send_failed") = 0

\* C15: a step of the writer task that logs a failed serialization or write
\* still counts the record in total, adds no row and leaves the task in its
\* receive loop; so while the writer task lives and after it returned the
\* number of data rows written is total minus the logged failures, and
\* every dequeued record is counted
C15_WriteFailure ==
    /\ [](wpc \in {"recv", "done"} =>
            /\ total_count = Len(received)
            /\ Len(OutputRows) - 1 = total_count - LogCount("write_failed"))
    /\ [][ LogCount("write_failed")' # LogCount("write_failed") =>
             /\ LogCount("write_failed")' = LogCount("write_failed") + 1
             /\ queue # <<>>
             /\ received' = Append(received, Head(queue))
             /\ total_count' = total_count + 1
             /\ OutputRows' = OutputRows
             /\ wpc = "recv" /\ wpc' = "recv"
             /\ pc' = pc
         ]_vars

\* C15 witness: the writer task returned after two different records; the
\* write of the first failed and was logged, the second is the only data row
C15_Witness ==
    /\ wpc = "done"
    /\ total_count = 2
    /\ LogCount("write_failed") = 1
    /\ log[Len(log)].ev # "write_failed"
    /\ received[1] # received[2]
    /\ outDisk = << CsvHeader, CsvRow(received[2]) >>

\* C16: at every moment total is the number of records dequeued and
\* successful the number of those with download_successful true, so
\* successful <= total; the counters stop once the writer task returned; the
\* summary is reported in the one step that joins the returned writer task,
\* and at Done failed = total - successful is not negative
C16_Counters ==
    /\ [](/\ total_count = Len(received)
          /\ successful_count =
                Cardinality({ i \in 1..Len(received) : received[i].download_successful })
          /\ successful_count <= total_count)
    /\ [](pc = "done" =>
            /\ summary.total = Len(received)
            /\ summary.successful = successful_count
            /\ summary.failed = summary.total - summary.successful
            /\ summary.failed >= 0)
    /\ [][ summary' # summary => pc = "join" /\ wpc = "done" /\ pc' = "done" ]_vars
    /\ [][ wpc = "done" =>
             total_count' = total_count /\ successful_count' = successful_count ]_vars

\* C16 witness: Done after three records of which exactly one was downloaded
C16_Witness ==
    /\ pc = "done"
    /\ summary = [total |-> 3, successful |-> 1, failed |-> 2]
    /\ Len(received) = 3

\* records pulled from the stream and not yet dequeued by the writer task
PulledNotDequeued == Len(offsets) - Len(received)

\* C17: the queue never holds more than 100 records; the records pulled
\* and not yet dequeued are those held by a future and those in the queue,
\* at most C + 100; and from a state with the queue full and every one of
\* the C slots held by a task waiting to enqueue no step advances the
\* stream or changes the futures in progress
C17_Backpressure ==
    /\ [](Len(queue) <= QueueCap)
    /\ [](pc \in {"streaming", "join", "done"} =>
            /\ PulledNotDequeued
                 = Cardinality({ i \in 1..Len(inflight) : inflight[i].kind = "ok" })
                   + Len(queue)
            /\ PulledNotDequeued <= args.concurrency + QueueCap)
    /\ [][ (Len(queue) = QueueCap /\ Cardinality(Sending) = args.concurrency) =>
             /\ pos' = pos
             /\ offsets' = offsets
             /\ bytes_processed' = bytes_processed
             /\ inflight' = inflight
             /\ Len(queue') <= Len(queue)
         ]_vars

\* C17 witness: 100 records are queued, the one slot is held by a task
\* waiting to enqueue, C + 100 records are pulled and not dequeued, and a
\* line of the file is still unread
C17_Witness ==
    /\ pc = "streaming"
    /\ Len(queue) = QueueCap
    /\ Cardinality(Sending) = args.concurrency
    /\ PulledNotDequeued = args.concurrency + QueueCap
    /\ received = <<>>
    /\ pos = Len(input.lines) - 1

\* the futures in progress that were made from an Err item of the stream
ErrTasks == { i \in 1..Len(inflight) : inflight[i].kind = "err" }

\* C18 as stated: an Err item never enters the set of futures in progress,
\* and whenever fewer than C fetch tasks are in progress the stream may be
\* polled for the next record
C18_Original ==
    /\ ErrTasks = {}
    /\ (pc = "streaming"
          /\ Cardinality({ i \in 1..Len(inflight) : inflight[i].kind = "ok" })
               < args.concurrency)
        => SlotFree

\* C18: an Err item is a future in progress that counts against C with the
\* fetch tasks, it is never fetching or sending, and the step that takes it
\* out of the set logs it and changes neither the queue, the progress
\* position, the stream nor the run's state
C18_ErrHoldsSlotUntilPolled ==
    /\ [](Len(inflight) <= args.concurrency)
    /\ [](\A i \in ErrTasks : inflight[i].phase = "new" /\ inflight[i].output_record = NoOutput)
    /\ [][ Cardinality(ErrTasks') < Cardinality(ErrTasks) =>
             /\ Len(inflight') = Len(inflight) - 1
             /\ log' = Append(log, [ev |-> "error_processing_record",
                                    line |-> log'[Len(log')].line, at |-> 0])
             /\ queue' = queue
             /\ pb' = pb
             /\ pos' = pos
             /\ received' = received
             /\ pc' = pc
         ]_vars

\* C18 witness: with concurrency 2 one fetch is in progress, the other slot
\* is held by an Err item that was not polled yet, and the next line of the
\* file cannot be pulled
C18_Witness ==
    /\ pc = "streaming"
    /\ args.concurrency = 2
    /\ Len(inflight) = 2
    /\ inflight[1].kind = "ok" /\ inflight[1].phase = "fetching"
    /\ inflight[2].kind = "err" /\ inflight[2].phase = "new"
    /\ pos < Len(input.lines)
    /\ ~SlotFree

\* C19: the byte offset changes only in a step of the stream, where it
\* does not decrease, no step of the writer task touches the progress
\* indicator, and the position of the progress indicator never decreases
C19_ProgressMonotone ==
    /\ [][ bytes_processed' # bytes_processed =>
             /\ pc \in {"open_input", "streaming"}
             /\ bytes_processed' > bytes_processed
             /\ (pc = "streaming" => pos' = pos + 1)
         ]_vars
    /\ [][ pb' # pb => pc' # pc \/ inflight' # inflight ]_vars
    /\ [][ pb.position' >= pb.position ]_vars

\* C20: with concurrency 1 at most one future is in progress, and while a
\* record's future is in progress every record yielded before it is already
\* enqueued; the records enqueued follow the order of the valid lines of
\* the file, and so do the data rows when no write failed
C20_SequentialOrder ==
    args.concurrency = 1 =>
        LET valid == ValidRecords
            sent == received \o queue
            rows == OutputRows
        IN
        /\ Len(inflight) <= 1
        /\ (inflight # <<>> /\ inflight[1].kind = "ok") => Len(sent) = Len(offsets) - 1
        /\ Len(sent) <= Len(valid)
        /\ \A i \in 1..Len(sent) : InputOf(sent[i]) = valid[i]
        /\ (LogCount("write_failed") = 0 /\ wpc \in {"recv", "done"}) =>
              /\ Len(rows) = Len(received) + 1
              /\ \A k \in 1..Len(received) :
                    /\ rows[k + 1][1] = valid[k].url
                    /\ rows[k + 1][2] = valid[k].text

\* C20 witness: with concurrency 1 two different records are Done and the
\* flushed output holds the header and their rows in the order of the file
C20_Witness ==
    /\ args.concurrency = 1
    /\ pc = "done"
    /\ args.no_header
    /\ input.lines = << <<"a", "TAB", "x">>, <<"b", "TAB", "y">> >>
    /\ outDisk # "untouched"
    /\ Len(outDisk) = 3
    /\ outDisk[2][1] = <<"a">>
    /\ outDisk[3][1] = <<"b">>

TypeOK ==
    /\ pc \in {"main", "file_size", "client", "output", "open_input", "streaming",
               "join", "done", "failed"}
    /\ wpc \in {"unspawned", "recv", "done", "cancelled"}
    /\ Len(queue) <= QueueCap
====
